---- MODULE Spec2Model ----
(***************************************************************************)
(* Model of src/src/lib.rs: the Zed extension                              *)
(* VirtualizationManagementExtension and its single trait method           *)
(* context_server_command, which maps a context-server identifier to the   *)
(* command line the host uses to launch the MCP server.                    *)
(*                                                                         *)
(* Strings are modelled as sequences of their bytes (ASCII codes), so that *)
(* whole-string, case-sensitive comparison and the formatting of the error *)
(* text are computed rather than assumed.                                  *)
(***************************************************************************)
EXTENDS Integers, Sequences, FiniteSets, TLC

VARIABLES
    self,    \* the extension value (a unit struct: it has no fields)
    calls,   \* the calls made so far, oldest first: [id, project, ret]
    io       \* the effects performed by the extension so far, oldest first

vars == <<self, calls, io>>

\* Number of context_server_command calls a behaviour makes.
MaxCalls == 3

(***************************************************************************)
(* String literals of the source, as bytes.                                *)
(***************************************************************************)

\* "virtualization-mcp"
ServerId ==
    <<118, 105, 114, 116, 117, 97, 108, 105, 122, 97, 116, 105, 111, 110,
      45, 109, 99, 112>>

\* "uv"
CommandName == <<117, 118>>

\* "run"
ArgRun == <<114, 117, 110>>

\* "virtualization_mcp.all_tools_server:main"
ArgMain ==
    <<118, 105, 114, 116, 117, 97, 108, 105, 122, 97, 116, 105, 111, 110,
      95, 109, 99, 112, 46, 97, 108, 108, 95, 116, 111, 111, 108, 115, 95,
      115, 101, 114, 118, 101, 114, 58, 109, 97, 105, 110>>

\* "Unknown server: "
UnknownServerText ==
    <<85, 110, 107, 110, 111, 119, 110, 32, 115, 101, 114, 118, 101, 114,
      58, 32>>

(***************************************************************************)
(* Inputs the host may pass.                                               *)
(***************************************************************************)

\* "Virtualization-MCP": differs from ServerId in letter case only
IdUpperCase ==
    <<86, 105, 114, 116, 117, 97, 108, 105, 122, 97, 116, 105, 111, 110,
      45, 77, 67, 80>>

\* "virtualization-mc": ServerId without its last byte
IdTruncated == SubSeq(ServerId, 1, Len(ServerId) - 1)

\* "virtualization_mcp": the Python package name, one byte off ServerId
IdUnderscore ==
    <<118, 105, 114, 116, 117, 97, 108, 105, 122, 97, 116, 105, 111, 110,
      95, 109, 99, 112>>

\* "docker-mcp"
IdOther == <<100, 111, 99, 107, 101, 114, 45, 109, 99, 112>>

\* ServerId, "", and near misses: other case, added whitespace before and
\* after, embedded in a longer identifier, truncated, one byte changed,
\* unrelated.
Ids ==
    { ServerId,
      <<>>,
      IdUpperCase,
      ServerId \o <<32>>,
      <<32>> \o ServerId,
      <<120>> \o ServerId \o <<120>>,
      IdTruncated,
      IdUnderscore,
      IdOther }

\* The project handle is opaque to the extension.
Projects == {"projectA", "projectB"}

(***************************************************************************)
(* The code.                                                               *)
(***************************************************************************)

\* struct VirtualizationManagementExtension;
VirtualizationManagementExtension == [fields |-> <<>>]

\* u8::to_ascii_lowercase
to_ascii_lowercase(b) == IF b \in 65..90 THEN b + 32 ELSE b

\* Variant of str_eq that ignores ASCII letter case (str::eq_ignore_ascii_case).
str_eq_ignore_ascii_case(a, b) ==
    /\ Len(a) = Len(b)
    /\ \A i \in 1..Len(a) : to_ascii_lowercase(a[i]) = to_ascii_lowercase(b[i])

\* A string pattern in a match arm matches when the scrutinee has the same
\* length and the same bytes.
str_eq(a, b) ==
    /\ Len(a) = Len(b)
    /\ \A i \in 1..Len(a) : a[i] = b[i]

\* Ok(value)
Ok(v) == [tag |-> "Ok", value |-> v]

\* Err(message)
Err(e) == [tag |-> "Err", value |-> e]

\* Variant of CommandArgs with the two arguments in the other order.
CommandArgs_swapped == <<ArgMain, ArgRun>>

\* vec!["run".to_string(), "virtualization_mcp.all_tools_server:main".to_string()]
CommandArgs == <<ArgRun, ArgMain>>

\* env: Default::default()
CommandEnv == {}

\* zed::Command { command, args, env }
ServerCommand ==
    [command |-> CommandName, args |-> CommandArgs, env |-> CommandEnv]

\* Variant of format_unknown_server that leaves the identifier out.
format_unknown_server_static(id) == UnknownServerText

\* format!("Unknown server: {}", id.0)
format_unknown_server(id) == UnknownServerText \o id

\* Variant without the match: the command is returned for every identifier.
context_server_command_unconditional(s, id, project) ==
    [ret |-> Ok(ServerCommand), self |-> s, io |-> <<>>]

\* Variant whose result depends on the project argument.
context_server_command_by_project(s, id, project) ==
    IF str_eq(id, ServerId) /\ project = "projectA"
    THEN [ret |-> Ok(ServerCommand), self |-> s, io |-> <<>>]
    ELSE [ret |-> Err(format_unknown_server(id)), self |-> s, io |-> <<>>]

\* Variant that remembers a failure in the extension and keeps failing.
context_server_command_poisoning(s, id, project) ==
    IF str_eq(id, ServerId) /\ s.fields = <<>>
    THEN [ret |-> Ok(ServerCommand), self |-> s, io |-> <<>>]
    ELSE [ret |-> Err(format_unknown_server(id)),
          self |-> [fields |-> <<"failed">>], io |-> <<>>]

\* Variant that launches the server itself instead of leaving it to the host.
context_server_command_spawning(s, id, project) ==
    IF str_eq(id, ServerId)
    THEN [ret |-> Ok(ServerCommand), self |-> s,
          io |-> <<[op |-> "spawn", command |-> ServerCommand]>>]
    ELSE [ret |-> Err(format_unknown_server(id)), self |-> s, io |-> <<>>]

\* Variant whose wildcard arm panics instead of returning an error.
context_server_command_panicking(s, id, project) ==
    IF str_eq(id, ServerId)
    THEN [ret |-> Ok(ServerCommand), self |-> s, io |-> <<>>]
    ELSE [ret |-> [tag |-> "Panic", value |-> format_unknown_server(id)],
          self |-> s, io |-> <<>>]

\* fn context_server_command(&mut self, id, _project) -> Result<Command>:
\* the value returned, the extension value after the call, and the effects
\* performed during the call.
context_server_command(s, id, project) ==
    IF str_eq(id, ServerId)
    THEN [ret |-> Ok(ServerCommand), self |-> s, io |-> <<>>]
    ELSE [ret |-> Err(format_unknown_server(id)), self |-> s, io |-> <<>>]

(***************************************************************************)
(* The state machine: the host calls the method any number of times.       *)
(***************************************************************************)

\* zed::register_extension!(VirtualizationManagementExtension)
Init ==
    /\ self = VirtualizationManagementExtension
    /\ calls = <<>>
    /\ io = <<>>

\* One call of context_server_command by the host.
ContextServerCommand(id, project) ==
    /\ Len(calls) < MaxCalls
    /\ LET r == context_server_command(self, id, project) IN
        /\ self' = r.self
        /\ io' = io \o r.io
        /\ calls' = Append(calls, [id |-> id, project |-> project, ret |-> r.ret])

Next == \E id \in Ids, project \in Projects : ContextServerCommand(id, project)

Spec == Init /\ [][Next]_vars

(***************************************************************************)
(* Properties.                                                             *)
(***************************************************************************)

\* The calls made so far, by position.
CallIndexes == 1..Len(calls)

\* needle occurs in hay as a contiguous run of bytes (at the start, at the
\* end or in the middle).
Contains(hay, needle) ==
    \E k \in 0..(Len(hay) - Len(needle)) :
        SubSeq(hay, k + 1, k + Len(needle)) = needle

\* The descriptor stated for "virtualization-mcp": "uv", then "run" and
\* "virtualization_mcp.all_tools_server:main", and no environment overrides.
IsStatedCommand(c) ==
    /\ c.command = <<117, 118>>
    /\ Len(c.args) = 2
    /\ c.args[1] = ArgRun
    /\ c.args[2] = ArgMain
    /\ c.env = {}

\* C1: every call whose identifier is exactly "virtualization-mcp" succeeds
\* and returns executable "uv", arguments ["run",
\* "virtualization_mcp.all_tools_server:main"] (two, in that order) and no
\* environment overrides, whatever the project and whatever came before.
C1_KnownIdReturnsCommand ==
    \A i \in CallIndexes :
        calls[i].id = ServerId =>
            /\ calls[i].ret.tag = "Ok"
            /\ IsStatedCommand(calls[i].ret.value)

\* The known identifier was looked up with each project, after a failed call.
C1_Witness ==
    /\ Len(calls) >= 3
    /\ calls[1].ret.tag = "Err"
    /\ calls[2].id = ServerId /\ calls[2].project = "projectA"
    /\ calls[3].id = ServerId /\ calls[3].project = "projectB"

\* C2: a command is returned if and only if the identifier is
\* "virtualization-mcp"; every other identifier fails with an error and
\* yields no command.
C2_CommandIffKnownId ==
    \A i \in CallIndexes :
        /\ calls[i].ret.tag = "Ok" <=> calls[i].id = ServerId
        /\ calls[i].id # ServerId => calls[i].ret.tag = "Err"

\* An unknown identifier and the known one were both looked up.
C2_Witness ==
    \E i, j \in CallIndexes :
        /\ calls[i].id = IdOther /\ calls[i].ret.tag = "Err"
        /\ calls[j].id = ServerId /\ calls[j].ret.tag = "Ok"

\* C3: two calls given the same identifier return equal results, whatever
\* project each was given and whatever calls were made in between.
C3_SameIdSameResult ==
    \A i, j \in CallIndexes :
        calls[i].id = calls[j].id => calls[i].ret = calls[j].ret

\* The same identifier was looked up twice with different projects and a
\* call with another outcome in between.
C3_Witness ==
    /\ Len(calls) >= 3
    /\ calls[1].id = calls[3].id
    /\ calls[1].project # calls[3].project
    /\ calls[2].ret.tag # calls[1].ret.tag

\* The last call made.
LastCall(cs) == cs[Len(cs)]

\* C4 (step part): a call that fails leaves the extension as it was and
\* performs no effect.
C4_FailedCallChangesNothing ==
    (Len(calls') = Len(calls) + 1 /\ LastCall(calls').ret.tag = "Err")
        => (self' = self /\ io' = io)

\* C4 (later part): a call with "virtualization-mcp" made after failed calls
\* returns the stated command.
C4_KnownIdSucceedsAfterFailure ==
    \A i, j \in CallIndexes :
        (i < j /\ calls[i].ret.tag = "Err" /\ calls[j].id = ServerId) =>
            /\ calls[j].ret.tag = "Ok"
            /\ IsStatedCommand(calls[j].ret.value)

\* C4: a call that fails for an unknown identifier performs no effect and
\* leaves the extension unchanged, and a later call with
\* "virtualization-mcp" succeeds with the stated command.
C4_FailureIsLocal ==
    /\ [][C4_FailedCallChangesNothing]_vars
    /\ [](C4_KnownIdSucceedsAfterFailure)

\* Two failed calls were followed by a call with the known identifier.
C4_Witness ==
    /\ Len(calls) >= 3
    /\ calls[1].ret.tag = "Err"
    /\ calls[2].ret.tag = "Err"
    /\ calls[3].id = ServerId

\* C5: across any sequence of calls the extension holds no data (it still
\* has no fields) and has performed no effect: no process spawned, no
\* session opened, no message sent.
C5_NoStateNoEffects ==
    /\ self = [fields |-> <<>>]
    /\ io = <<>>

\* Successful and failed calls have both been made.
C5_Witness ==
    /\ Len(calls) >= 3
    /\ \E i \in CallIndexes : calls[i].ret.tag = "Ok"
    /\ \E i \in CallIndexes : calls[i].ret.tag = "Err"

\* b with an upper-case ASCII letter replaced by its lower-case letter.
Lower(b) == IF b >= 65 /\ b <= 90 THEN b + 32 ELSE b

\* a and b differ at most in the case of their letters.
SameUpToCase(a, b) ==
    /\ Len(a) = Len(b)
    /\ \A k \in 1..Len(a) : Lower(a[k]) = Lower(b[k])

\* id is not "virtualization-mcp" but is empty, differs from it only in
\* letter case, or has it as a proper prefix, suffix or substring.
IsNearMiss(id) ==
    /\ id # ServerId
    /\ \/ id = <<>>
       \/ SameUpToCase(id, ServerId)
       \/ Contains(id, ServerId)

\* C6: the empty identifier, an identifier differing only in letter case and
\* an identifier that merely contains "virtualization-mcp" all fail and
\* never yield the command.
C6_WholeStringCaseSensitive ==
    \A i \in CallIndexes :
        IsNearMiss(calls[i].id) => calls[i].ret.tag = "Err"

\* The empty identifier, one differing in case and one with added
\* whitespace have been looked up.
C6_Witness ==
    /\ \E i \in CallIndexes : calls[i].id = <<>>
    /\ \E i \in CallIndexes :
        calls[i].id # ServerId /\ SameUpToCase(calls[i].id, ServerId)
    /\ \E i \in CallIndexes :
        calls[i].id # ServerId /\ Contains(calls[i].id, ServerId)

\* C7: for every unknown identifier the error is "Unknown server: "
\* followed by the identifier as supplied, so distinct unknown identifiers
\* give distinct errors.
C7_ErrorNamesIdentifier ==
    /\ \A i \in CallIndexes :
        calls[i].id # ServerId =>
            /\ calls[i].ret.tag = "Err"
            /\ Len(calls[i].ret.value) = Len(UnknownServerText) + Len(calls[i].id)
            /\ SubSeq(calls[i].ret.value, 1, Len(UnknownServerText))
                   = UnknownServerText
            /\ SubSeq(calls[i].ret.value, Len(UnknownServerText) + 1,
                      Len(calls[i].ret.value)) = calls[i].id
    /\ \A i, j \in CallIndexes :
        (calls[i].id # ServerId /\ calls[j].id # ServerId
            /\ calls[i].id # calls[j].id) => calls[i].ret # calls[j].ret

\* Distinct unknown identifiers, the empty one among them, were rejected.
C7_Witness ==
    \E i, j \in CallIndexes :
        /\ calls[i].id = <<>>
        /\ calls[j].id = IdUpperCase
        /\ calls[i].ret.tag = "Err" /\ calls[j].ret.tag = "Err"

\* C8: for every identifier and every project a call can be made and
\* completes in one step, and what it returns is exactly one of a command
\* and an error.
C8_Total ==
    /\ \A i \in CallIndexes :
        /\ calls[i].ret.tag \in {"Ok", "Err"}
        /\ DOMAIN calls[i].ret = {"tag", "value"}
    /\ Len(calls) < MaxCalls =>
        \A id \in Ids, project \in Projects :
            ENABLED ContextServerCommand(id, project)

\* Calls were made for a known and an unknown identifier and more can follow.
C8_Witness ==
    /\ Len(calls) = 2
    /\ calls[1].ret.tag = "Ok"
    /\ calls[2].ret.tag = "Err"

====
